---------------------------- MODULE Spec2Model ----------------------------
(* rlp-iter: the Resolving Lattice Point iterator of src/src/lib.rs.       *)
(* A RlpIter is built from a Range<usize> or a RangeInclusive<usize> by    *)
(* rlp_iter() and driven by repeated calls of Iterator::next().            *)
(*                                                                         *)
(* Besides the iterator under test (it) the model drives two more          *)
(* iterators in lockstep, with the same next(): `base`, built from the     *)
(* same kind of range moved to start at 0, and `twin`, built from the      *)
(* other kind of range over the same integers.  They exist to state the    *)
(* relational properties (shift invariance, Range / RangeInclusive         *)
(* agreement); nothing in `it` depends on them.                            *)
EXTENDS Integers, Sequences, FiniteSets, TLC

\* ---------------------------------------------------------------- bounds
\* Largest number of elements of a range that is built.
MaxLen == 101
\* Range starts 0..MaxStart are built, and BigStart.
MaxStart == 1
\* The start of the "extreme offset" ranges of the tests (1_000..=1_008).
BigStart == 1000
\* Calls of next() that return None, after which the consumer stops calling.
MaxNone == 2

\* ---------------------------------------------------------------- usize
\* The width of usize, in bits, on the 64-bit targets modelled here.
UsizeBits == 64

\* A usize u is held as the integer nearest to 0 that is congruent to u
\* modulo 2^UsizeBits: a small value as itself, a value just below
\* 2^UsizeBits as a negative number (usize::MAX is -1).  Wrapping addition
\* and subtraction are then plain + and -.
huge(u) == u < 0

\* a < b as unsigned integers.
ult(a, b) == IF huge(a) = huge(b) THEN a < b ELSE huge(b)

\* ------------------------------------------------------------ Option<T>
None == << >>
Some(v) == << v >>
is_some(o) == o # None
unwrap(o) == o[1]

\* ------------------------------------------------------- bit_vec::BitVec
\* BitVec::from_elem(nbits, bit): nbits bits, indexed 0..nbits-1.
from_elem(nbits, bit) == [i \in 0..(nbits - 1) |-> bit]
\* BitVec::get(i): None when i is out of bounds.
get(bv, i) == IF i \in DOMAIN bv THEN Some(bv[i]) ELSE None
\* BitVec::set(i, x); the caller has checked i is in bounds.
set(bv, i, x) == [bv EXCEPT ![i] = x]

\* ------------------------------------------------------------ enum State
State == {"Start", "End", "Lattice", "Finished"}

\* ---------------------------------------------------------------- ilog2
\* (i as f64).log2().round() as usize.  log2(i) is never k + 1/2 for an
\* integer i, so rounding to nearest gives the k with
\* 2^(k - 1/2) < i < 2^(k + 1/2), i.e. 4^k < 2*i*i < 4^(k+1).
\* For i = 0, log2 is -inf and the cast to usize saturates to 0.
\* A value just below 2^UsizeBits is 2^UsizeBits as an f64.
RECURSIVE ilog2_from(_, _)
ilog2_from(i, k) == IF 2 * i * i < 4 ^ (k + 1) THEN k ELSE ilog2_from(i, k + 1)

\* Mutant: log10 in place of log2.
ilog2_log10(i) ==
    IF i * i < 10 THEN 0 ELSE IF i * i < 1000 THEN 1 ELSE IF i * i < 100000 THEN 2 ELSE 3

\* Mutant: .ceil() in place of .round().
ilog2_ceil(i) ==
    IF i = 0 THEN 0
    ELSE CHOOSE k \in 0..30 : i <= 2 ^ k /\ (k = 0 \/ i > 2 ^ (k - 1))

ilog2(i) == IF i = 0 THEN 0 ELSE IF huge(i) THEN UsizeBits ELSE ilog2_from(i, 0)

\* ------------------------------------------------------------- rlp_iter
\* Mutant: the bitset sized BitVec::from_elem(range, false).
RlpIterStruct_short(range, shift) ==
    [ tested    |-> from_elem(range, FALSE),
      shift     |-> shift,
      range     |-> range,
      numerator |-> 1,
      pow       |-> 1,
      final_pow |-> ilog2(range),
      state     |-> "Start" ]

RlpIterStruct(range, shift) ==
    [ tested    |-> from_elem(range + 1, FALSE),
      shift     |-> shift,
      range     |-> range,
      numerator |-> 1,
      pow       |-> 1,
      final_pow |-> ilog2(range),
      state     |-> "Start" ]

\* Mutant: final_pow taken from the range's last integer, not from its size.
rlp_iter_Range_log_of_end(start, end) ==
    [RlpIterStruct(end - start - 1, start) EXCEPT !.final_pow = ilog2(end - 1)]

\* Mutant: the closed range sized by its number of integers.
rlp_iter_RangeInclusive_len(start, end) == RlpIterStruct(end - start + 1, start)

\* Mutant: the half-open range sized as if it were closed.
rlp_iter_Range_closed(start, end) == RlpIterStruct(end - start, start)

\* impl RlpIterator for Range<usize>
rlp_iter_Range(start, end) == RlpIterStruct(end - start - 1, start)

\* impl RlpIterator for RangeInclusive<usize>
rlp_iter_RangeInclusive(start, end) == RlpIterStruct(end - start, start)

rlp_iter(kind, start, end) ==
    IF kind = "Range" THEN rlp_iter_Range(start, end)
                      ELSE rlp_iter_RangeInclusive(start, end)

\* Whether the arithmetic of rlp_iter() overflows usize: end - start, the
\* - 1 of the half-open range, or the range + 1 of BitVec::from_elem.
rlp_iter_overflows(kind, start, end) ==
    \/ ult(end, start)
    \/ kind = "Range" /\ end - start = 0
    \/ kind = "RangeInclusive" /\ end - start = -1

\* BitVec::from_elem of a number of bits just below 2^UsizeBits: the
\* allocation of 2^(UsizeBits - 3) bytes fails and the process aborts.
alloc_fails(nbits) == huge(nbits)

\* What stands for the iterator when rlp_iter() returned none.
NoIter == [state |-> "Unbuilt"]

\* A call of rlp_iter().  With overflow checks (a debug build) an overflow
\* panics; without them (a release build) the arithmetic wraps.
construct(kind, start, end, checks) ==
    IF checks /\ rlp_iter_overflows(kind, start, end)
    THEN [built |-> FALSE, it |-> NoIter]
    ELSE LET self == rlp_iter(kind, start, end)
         IN  IF alloc_fails(self.range + 1)
             THEN [built |-> FALSE, it |-> NoIter]
             ELSE [built |-> TRUE, it |-> self]

\* ----------------------------------------------------------------- next
\* The result of the match in next(): the iterator afterwards, the
\* unshifted Option, the branch that produced it, and whether an
\* unwrap() / set() on the bitset panicked.  For the two loops also: the
\* lattice candidates evaluated (sweeps), the offsets inspected by the
\* gap-filling loop (scans), and the cursor that loop was entered with.
Res(self, out, via) ==
    [self |-> self, out |-> out, via |-> via, panic |-> FALSE,
     sweeps |-> 0, scans |-> 0, scan_from |-> None]
Panic(self) ==
    [self |-> self, out |-> None, via |-> "panic", panic |-> TRUE,
     sweeps |-> 0, scans |-> 0, scan_from |-> None]

\* Mutant: the product is truncated (as usize) without .round().
lattice_val_truncated(range, numerator, denominator) ==
    (range * numerator) \div denominator

\* (self.range as f64 * (self.numerator as f64 / denominator as f64)).round()
\* numerator / 2^pow and the product are exact in f64 for the sizes here;
\* f64::round rounds half away from zero, and the value is not negative.
lattice_val(range, numerator, denominator) ==
    (2 * range * numerator + denominator) \div (2 * denominator)

\* Mutant: State::Start without the tested.set(0, true).
next_Start_unmarked(self) == Res([self EXCEPT !.state = "End"], Some(0), "start")

\* State::Start
next_Start(self) ==
    IF 0 \notin DOMAIN self.tested THEN Panic(self)
    ELSE Res([self EXCEPT !.state = "End", !.tested = set(self.tested, 0, TRUE)],
             Some(0), "start")

\* Mutant: State::End without the tested.set(self.range, true).
next_End_unmarked(self) ==
    IF self.range = 0
    THEN Res([self EXCEPT !.state = "Finished"], None, "end")
    ELSE Res([self EXCEPT !.state = "Lattice"], Some(self.range), "end")

\* Mutant: State::End finishes a two-element range as it returns its end.
next_End_finishes_pair(self) ==
    IF self.range = 0
    THEN Res([self EXCEPT !.state = "Finished"], None, "end")
    ELSE Res([self EXCEPT !.state = IF self.range = 1 THEN "Finished" ELSE "Lattice",
                          !.tested = set(self.tested, self.range, TRUE)],
             Some(self.range), "end")

\* Mutant: State::End without the range == 0 case.
next_End_unguarded(self) ==
    Res([self EXCEPT !.state = "Lattice",
                     !.tested = set(self.tested, self.range, TRUE)],
        Some(self.range), "end")

\* State::End
next_End(self) ==
    IF self.range = 0
    THEN Res([self EXCEPT !.state = "Finished"], None, "end")
    ELSE IF self.range \notin DOMAIN self.tested THEN Panic(self)
    ELSE Res([self EXCEPT !.state = "Lattice",
                          !.tested = set(self.tested, self.range, TRUE)],
             Some(self.range), "end")

\* Mutant: the level ends one numerator late (numerator == denominator).
advance_late_wrap(self, denominator) ==
    IF self.numerator = denominator
    THEN [self EXCEPT !.numerator = 1, !.pow = self.pow + 1]
    ELSE [self EXCEPT !.numerator = self.numerator + 1]

\* Mutant: the numerator is reset to 0 when pow is incremented.
advance_reset_zero(self, denominator) ==
    IF self.numerator = denominator - 1
    THEN [self EXCEPT !.numerator = 0, !.pow = self.pow + 1]
    ELSE [self EXCEPT !.numerator = self.numerator + 1]

\* Mutant: the numerator is not reset when pow is incremented.
advance_no_reset(self, denominator) ==
    IF self.numerator = denominator - 1
    THEN [self EXCEPT !.pow = self.pow + 1]
    ELSE [self EXCEPT !.numerator = self.numerator + 1]

\* Increment numerator / denominator
advance(self, denominator) ==
    IF self.numerator = denominator - 1
    THEN [self EXCEPT !.numerator = 1, !.pow = self.pow + 1]
    ELSE [self EXCEPT !.numerator = self.numerator + 1]

\* The lattice loop is over: the bitset access panicked, the pass found a
\* value (break), or the loop condition self.pow <= self.final_pow is false.
sweep_done(r) == r.panic \/ is_some(r.out) \/ ~(r.self.pow <= r.self.final_pow)

\* One pass through the body of the lattice loop.
sweep_pass(r) ==
    LET self == r.self
        denominator == 2 ^ self.pow
        val == lattice_val(self.range, self.numerator, denominator)
        bit == get(self.tested, val)
    IN  IF ~is_some(bit) THEN [Panic(self) EXCEPT !.sweeps = r.sweeps]
        ELSE IF ~unwrap(bit)
        THEN [r EXCEPT !.self = advance([self EXCEPT !.tested = set(self.tested, val, TRUE)],
                                        denominator),
                       !.out = Some(val),
                       !.sweeps = r.sweeps + 1]
        ELSE [r EXCEPT !.self = advance(self, denominator), !.sweeps = r.sweeps + 1]

\* At most k passes of the lattice loop, the first half of them before the
\* second half.
RECURSIVE sweep_passes(_, _)
sweep_passes(r, k) ==
    IF sweep_done(r) THEN r
    ELSE IF k = 1 THEN sweep_pass(r)
    ELSE LET half == sweep_passes(r, k \div 2)
         IN  sweep_passes(half, k - k \div 2)

\* The lattice loop run to its end, k passes and then twice as many.
RECURSIVE sweep_loop(_, _)
sweep_loop(r, k) ==
    IF sweep_done(r) THEN r
    ELSE LET ran == sweep_passes(r, k)
         IN  sweep_loop(ran, 2 * k)

\* while self.pow <= self.final_pow { ... }
sweep(self) == sweep_loop(Res(self, None, "sweep"), 1)

\* The gap-filling loop is over: the bitset access panicked, the pass found
\* a value (break), or the loop condition self.numerator <= self.range is
\* false.
scan_done(r) == r.panic \/ is_some(r.out) \/ ~(r.self.numerator <= r.self.range)

\* One pass through the body of the gap-filling loop.
scan_pass(r) ==
    LET self == r.self
        bit == get(self.tested, self.numerator)
    IN  IF ~is_some(bit) THEN [Panic(self) EXCEPT !.scans = r.scans]
        ELSE IF ~unwrap(bit)
        THEN [r EXCEPT !.self = [self EXCEPT !.tested = set(self.tested, self.numerator, TRUE),
                                             !.numerator = self.numerator + 1],
                       !.out = Some(self.numerator),
                       !.scans = r.scans + 1]
        ELSE [r EXCEPT !.self = [self EXCEPT !.numerator = self.numerator + 1],
                       !.scans = r.scans + 1]

\* At most k passes of the gap-filling loop, the first half of them before
\* the second half.
RECURSIVE scan_passes(_, _)
scan_passes(r, k) ==
    IF scan_done(r) THEN r
    ELSE IF k = 1 THEN scan_pass(r)
    ELSE LET half == scan_passes(r, k \div 2)
         IN  scan_passes(half, k - k \div 2)

\* The gap-filling loop run to its end, k passes and then twice as many.
RECURSIVE scan_loop(_, _)
scan_loop(r, k) ==
    IF scan_done(r) THEN r
    ELSE LET ran == scan_passes(r, k)
         IN  scan_loop(ran, 2 * k)

\* Fill gaps with simple iteration: while self.numerator <= self.range { ... }
scan(self) == scan_loop(Res(self, None, "scan"), 1)

\* Mutant: the bitset is dropped when the iterator finishes.
progress_clears(self) ==
    IF self.numerator > self.range
    THEN [self EXCEPT !.state = "Finished", !.tested = from_elem(0, FALSE)]
    ELSE self

\* Mutant: Finished after the first scan, whatever the cursor.
progress_always(self) == [self EXCEPT !.state = "Finished"]

\* Progress to finished
progress(self) ==
    IF self.numerator > self.range THEN [self EXCEPT !.state = "Finished"] ELSE self

\* State::Lattice
next_Lattice(self) ==
    LET swept == sweep(self)
    IN  IF swept.panic \/ is_some(swept.out) THEN swept
        ELSE LET scanned == scan(swept.self)
             IN  IF scanned.panic THEN scanned
                 ELSE [scanned EXCEPT !.self = progress(scanned.self),
                                      !.sweeps = swept.sweeps,
                                      !.scan_from = Some(swept.self.numerator)]

\* Mutant: a Finished iterator starts over.
next_Finished_restart(self) ==
    Res([self EXCEPT !.state = "Start"], None, "finished")

\* Mutant: a Finished call keeps moving the scan cursor.
next_Finished_advancing(self) ==
    Res([self EXCEPT !.numerator = self.numerator + 1], None, "finished")

\* State::Finished
next_Finished(self) == Res(self, None, "finished")

\* Mutant: the offset is returned without the shift.
shifted_not(self, unshifted) == unshifted

\* unshifted.map(|v| v + self.shift)
shifted(self, unshifted) ==
    IF is_some(unshifted) THEN Some(unwrap(unshifted) + self.shift) ELSE None

\* fn next(&mut self) -> Option<usize>
next(self) ==
    LET r == CASE self.state = "Start"    -> next_Start(self)
               [] self.state = "End"      -> next_End(self)
               [] self.state = "Lattice"  -> next_Lattice(self)
               [] self.state = "Finished" -> next_Finished(self)
    IN  [r EXCEPT !.out = shifted(r.self, r.out)]

\* ---------------------------------------------------------------- state
VARIABLES
    kind,      \* "Range" (start..end) or "RangeInclusive" (start..=end)
    start,     \* the range's start
    end,       \* the range's end
    overflow_checks, \* the build panics on integer overflow (debug build)
    built,     \* rlp_iter() returned an iterator
    it,        \* the RlpIter built from the range
    rets,      \* the results of the calls of it.next() so far, in order
    vias,      \* the branch of next() that produced each result
    panicked,  \* a call of it.next() panicked
    work,      \* lattice candidates evaluated and offsets scanned, so far
    scan_from, \* the cursor each run of the gap-filling loop was entered with
    base,      \* the iterator of the same kind of range, moved to start 0
    twin       \* the iterator of the other kind of range, same integers

vars == << kind, start, end, overflow_checks, built, it, rets, vias, panicked,
          work, scan_from, base, twin >>

Kinds == {"Range", "RangeInclusive"}
Starts == (0..MaxStart) \cup {BigStart}

\* The number of integers in the range; the range is valid when it is >= 1.
len(k, s, e) == IF k = "Range" THEN e - s ELSE e - s + 1

\* The range of the other kind that holds the same integers.
other_kind(k) == IF k = "Range" THEN "RangeInclusive" ELSE "Range"
other_end(k, e) == IF k = "Range" THEN e - 1 ELSE e + 1

\* A consumer of one iterator: the iterator and what its calls returned.
\* A consumer whose rlp_iter() returned no iterator makes no call.
Driver(c) == [it |-> c.it, rets |-> << >>, panicked |-> ~c.built]

drive(d) ==
    IF d.panicked THEN d
    ELSE LET r == next(d.it)
         IN  IF r.panic THEN [d EXCEPT !.panicked = TRUE]
             ELSE [it |-> r.self, rets |-> Append(d.rets, r.out), panicked |-> FALSE]

\* The state after (k range s, e).rlp_iter() in a build with or without
\* overflow checks.
Constructed(k, s, e, checks) ==
    /\ kind = k
    /\ start = s
    /\ end = e
    /\ overflow_checks = checks
    /\ built = construct(k, s, e, checks).built
    /\ it = construct(k, s, e, checks).it
    /\ rets = << >>
    /\ vias = << >>
    /\ panicked = FALSE
    /\ work = [sweep |-> 0, scan |-> 0]
    /\ scan_from = << >>
    /\ base = Driver(construct(k, 0, e - s, checks))
    /\ twin = Driver(construct(other_kind(k), s, other_end(k, e), checks))

\* The end of the range of kind k that starts at s and holds c integers.
end_of(k, s, c) == IF k = "Range" THEN s + c ELSE s + c - 1

\* Every valid range of up to MaxLen integers.
Init ==
    \E k \in Kinds, s \in Starts, c \in 1..MaxLen, checks \in BOOLEAN :
        Constructed(k, s, end_of(k, s, c), checks)

\* The calls that returned None so far.
nones(rs) == Cardinality({i \in DOMAIN rs : rs[i] = None})

\* One call of it.next(), with the same call made on base and on twin.
Call ==
    /\ built
    /\ ~panicked
    /\ nones(rets) < MaxNone
    /\ LET r == next(it)
       IN  IF r.panic
           THEN /\ panicked' = TRUE
                /\ UNCHANGED << it, rets, vias, work, scan_from >>
           ELSE /\ it' = r.self
                /\ rets' = Append(rets, r.out)
                /\ vias' = Append(vias, r.via)
                /\ work' = [sweep |-> work.sweep + r.sweeps,
                            scan  |-> work.scan + r.scans]
                /\ scan_from' = IF is_some(r.scan_from)
                                THEN Append(scan_from, unwrap(r.scan_from))
                                ELSE scan_from
                /\ UNCHANGED panicked
    /\ base' = drive(base)
    /\ twin' = drive(twin)
    /\ UNCHANGED << kind, start, end, overflow_checks, built >>

NextStart    == it.state = "Start" /\ Call
NextEnd      == it.state = "End" /\ Call
NextLattice  == it.state = "Lattice" /\ Call
NextFinished == it.state = "Finished" /\ Call

Next == NextStart \/ NextEnd \/ NextLattice \/ NextFinished

Spec == Init /\ [][Next]_vars

\* Ranges that hold no integer: start..end with end <= start and
\* start..=end with end < start, short of a valid range by up to MaxDeficit.
MaxDeficit == 2

InitInvalid ==
    \E k \in Kinds, s \in Starts, c \in (0 - MaxDeficit)..0, checks \in BOOLEAN :
        /\ end_of(k, s, c) >= 0
        /\ Constructed(k, s, end_of(k, s, c), checks)

\* Every range, valid or not.
SpecAny == (Init \/ InitInvalid) /\ [][Next]_vars

\* ------------------------------------------------------------- helpers
\* The number of integers in the range, and its inclusive upper bound.
n == len(kind, start, end)
hi == IF kind = "Range" THEN end - 1 ELSE end

\* The results up to (not including) the first None.
before_none(rs) ==
    LET at == {i \in DOMAIN rs : rs[i] = None}
    IN  IF at = {} THEN rs
        ELSE SubSeq(rs, 1, (CHOOSE i \in at : \A j \in at : i <= j) - 1)

\* The values of a sequence of Some results.
values(rs) == [i \in DOMAIN rs |-> unwrap(rs[i])]

\* The values returned up to the first end-of-sequence, in order.
run == values(before_none(rets))

\* The set of elements of a sequence.
elems(s) == {s[i] : i \in DOMAIN s}

\* Some value came out of the linear gap-filling scan.
scan_emitted == \E i \in DOMAIN rets : vias[i] = "scan" /\ is_some(rets[i])

TypeOK ==
    /\ kind \in Kinds
    /\ it.state \in State
    /\ panicked \in BOOLEAN

\* ----------------------------------------------------------------- C1
\* C1: for every valid range the values returned up to the first
\* end-of-sequence are a permutation of the range: nothing outside the range
\* is returned, nothing is returned twice, and once end-of-sequence has been
\* returned every integer of the range has been returned.
C1_Permutation ==
    /\ ~panicked
    /\ elems(run) \subseteq start..hi
    /\ Cardinality(elems(run)) = Len(run)
    /\ nones(rets) > 0 => elems(run) = start..hi

\* A complete run of a range whose lattice sweep left gaps for the scan.
C1_Witness ==
    /\ nones(rets) = 1
    /\ Len(run) >= 10
    /\ start > 0
    /\ scan_emitted

\* ----------------------------------------------------------------- C2
\* C2: a range of n elements terminates after n values: each of the first n
\* calls returns a value, call n + 1 returns end-of-sequence, and
\* end-of-sequence is never returned while an offset is still untested.
C2_Terminates ==
    /\ ~panicked
    /\ \A i \in DOMAIN rets :
           /\ i <= n => is_some(rets[i])
           /\ i = n + 1 => rets[i] = None
    /\ nones(rets) > 0 => \A o \in DOMAIN it.tested : it.tested[o]

\* Call n + 1 has been made on a range the scan had to complete.
C2_Witness ==
    /\ Len(rets) = n + 1
    /\ n >= 10
    /\ scan_emitted
    /\ rets[n + 1] = None

\* ----------------------------------------------------------------- C3
\* C3: once next() has returned end-of-sequence every later call returns
\* end-of-sequence, and a call made in phase Finished changes no field of
\* the iterator.
C3_FinishedInert ==
    [][ /\ (it.state = "Finished" /\ rets' # rets) =>
               (it' = it /\ rets' = Append(rets, None))
        /\ (nones(rets) > 0 /\ rets' # rets) => rets' = Append(rets, None)
        /\ it.state = "Finished" => ~panicked'
      ]_vars

\* A call has been made on a Finished iterator of a range of several elements.
C3_Witness ==
    /\ it.state = "Finished"
    /\ nones(rets) = MaxNone
    /\ n >= 3

\* ----------------------------------------------------------------- C4
\* C4: the first value returned is the range's lower bound.
C4_FirstIsStart ==
    Len(rets) >= 1 => rets[1] = Some(start)

C4_Witness ==
    /\ Len(rets) >= 1
    /\ start = BigStart
    /\ n >= 2

\* ----------------------------------------------------------------- C5
\* C5: for a range of more than one element the second value returned is
\* the range's inclusive upper bound: end for start..=end, end - 1 for
\* start..end.
C5_SecondIsUpper ==
    (n > 1 /\ Len(rets) >= 2) =>
        rets[2] = Some(IF kind = "Range" THEN end - 1 ELSE end)

C5_Witness ==
    /\ Len(rets) >= 2
    /\ kind = "Range"
    /\ n > 2
    /\ start > 0

\* ----------------------------------------------------------------- C6
\* C6: an iterator built from a single-element range (a..=a or a..a+1)
\* returns a on the first call and end-of-sequence on every later call, and
\* is never in phase Lattice.
C6_SingleElement ==
    n = 1 =>
        /\ ~panicked
        /\ it.state # "Lattice"
        /\ \A i \in DOMAIN rets :
               rets[i] = IF i = 1 THEN Some(start) ELSE None

\* A single-element half-open range after its value and two more calls.
C6_Witness ==
    /\ n = 1
    /\ kind = "Range"
    /\ start > 0
    /\ Len(rets) = 1 + MaxNone

\* ----------------------------------------------------------------- C7
\* C7: shift invariance.  The iterator of a..a+n and the iterator of 0..n
\* return end-of-sequence at the same calls and values that differ by a at
\* every other call, and after every call their bitset, numerator, pow and
\* phase are equal.
C7_ShiftInvariant ==
    kind = "Range" =>
        /\ ~panicked /\ ~base.panicked
        /\ Len(base.rets) = Len(rets)
        /\ \A i \in DOMAIN rets :
               IF is_some(base.rets[i])
               THEN rets[i] = Some(unwrap(base.rets[i]) + start)
               ELSE rets[i] = None
        /\ it.tested = base.it.tested
        /\ it.numerator = base.it.numerator
        /\ it.pow = base.it.pow
        /\ it.state = base.it.state

\* A complete run of a shifted half-open range, next to the run of 0..n.
C7_Witness ==
    /\ kind = "Range"
    /\ start = BigStart
    /\ base.it.shift = 0
    /\ n >= 10
    /\ nones(rets) >= 1
    /\ scan_emitted

\* ----------------------------------------------------------------- C8
\* C8: for end > start the iterator of start..end returns, call by call, the
\* same results (values and end-of-sequence) as the iterator of
\* start..=end - 1.
C8_RangeKindsAgree ==
    kind = "Range" =>
        /\ ~panicked /\ ~twin.panicked
        /\ twin.rets = rets

\* A complete run of start..end next to the run of start..=end - 1.
C8_Witness ==
    /\ kind = "Range"
    /\ twin.it.range = end - 1 - start
    /\ start > 0
    /\ n >= 10
    /\ nones(rets) >= 1

\* ----------------------------------------------------------------- C9
\* r is a power of two, and its exponent.
RECURSIVE is_pow2(_)
is_pow2(r) == r >= 1 /\ (r = 1 \/ (r % 2 = 0 /\ is_pow2(r \div 2)))

RECURSIVE exponent(_)
exponent(r) == IF r <= 1 THEN 0 ELSE 1 + exponent(r \div 2)

\* The odd multiples of 2^(k-p) below 2^k, ascending.
odd_multiples(k, p) == [j \in 1..(2 ^ (p - 1)) |-> (2 * j - 1) * 2 ^ (k - p)]

\* Levels p..k of the binary subdivision of 0..2^k.
RECURSIVE subdivision(_, _)
subdivision(k, p) ==
    IF p > k THEN << >> ELSE odd_multiples(k, p) \o subdivision(k, p + 1)

binary_order(k) == << 0, 2 ^ k >> \o subdivision(k, 1)

\* C9: when range_size is 2^k the offsets come out in binary-subdivision
\* order: 0, 2^k, then level by level the odd multiples of 2^(k-p) ascending;
\* the linear scan emits no value; 0..=8 gives [0, 8, 4, 2, 6, 1, 3, 5, 7].
C9_BinarySubdivision ==
    /\ is_pow2(n - 1) =>
           LET want == binary_order(exponent(n - 1))
           IN  /\ Len(run) <= Len(want)
               /\ \A i \in DOMAIN run : run[i] - start = want[i]
               /\ ~scan_emitted
               /\ nones(rets) > 0 => Len(run) = Len(want)
    /\ (kind = "RangeInclusive" /\ start = 0 /\ end = 8 /\ nones(rets) > 0) =>
           run = << 0, 8, 4, 2, 6, 1, 3, 5, 7 >>

\* The complete run of a shifted range with range_size 64.
C9_Witness ==
    /\ n - 1 = 64
    /\ start > 0
    /\ nones(rets) = 1
    /\ Len(run) = 65

\* ---------------------------------------------------------------- C10
\* a / b rounded to the nearest integer, a half rounded up.
nearest(a, b) == LET f == a \div b IN IF 2 * (a - f * b) >= b THEN f + 1 ELSE f

\* The offsets level pow adds to seen in a domain 0..r: those of the
\* fractions 1/2^pow, 2/2^pow, ..., (2^pow - 1)/2^pow in order, leaving out
\* the offsets in seen and those an earlier fraction of the level gave (the
\* offsets do not decrease along a level, so that is the fraction before).
level_offsets(r, pow, seen) ==
    LET cand == [num \in 1..(2 ^ pow - 1) |->
                    << nearest(r * num, 2 ^ pow), nearest(r * (num - 1), 2 ^ pow) >>]
        kept == SelectSeq(cand, LAMBDA x : x[1] \notin seen /\ x[1] # x[2])
    IN  [i \in DOMAIN kept |-> kept[i][1]]

\* The offsets of levels pow .. fp, level after level.
RECURSIVE lattice_order(_, _, _, _)
lattice_order(r, fp, seen, pow) ==
    IF pow > fp THEN << >>
    ELSE LET level == level_offsets(r, pow, seen)
         IN  level \o lattice_order(r, fp, seen \cup elems(level), pow + 1)

\* The results that came out of the lattice sweep, as offsets, in order.
sweep_results == SelectSeq([i \in DOMAIN rets |-> << vias[i], rets[i] >>],
                           LAMBDA x : x[1] = "sweep" /\ is_some(x[2]))
swept_offsets == [i \in DOMAIN sweep_results |-> unwrap(sweep_results[i][2]) - start]

\* C10: over a run, the values of the lattice sweep are, in order, the
\* offsets round(range_size * numerator / 2^pow), halves rounded up, of the
\* fractions 1/2, 1/4, 2/4, 3/4, 1/8, ... up to level final_pow, each
\* fraction taken unless its offset was returned before; they follow the two
\* endpoints directly, and no scan result comes before a sweep result.
\* 0..=100 starts [0, 100, 50, 25, 75, 13, 38, 63, 88].
C10_LatticeOrder ==
    /\ nones(rets) = 1 =>
           swept_offsets = lattice_order(n - 1, it.final_pow, {0, n - 1}, 1)
    /\ \A i \in DOMAIN vias :
           vias[i] = "sweep" => (i >= 3 /\ (i > 3 => vias[i - 1] = "sweep"))
    /\ (kind = "RangeInclusive" /\ start = 0 /\ end = 100 /\ Len(rets) >= 9) =>
           \A i \in 1..9 : rets[i] = Some(<< 0, 100, 50, 25, 75, 13, 38, 63, 88 >>[i])

\* The complete run of 0..=100: the sweep rounded 12.5 up to 13, skipped
\* the fractions whose offset was returned before (2/4, 2/8, ...) and went
\* on to level 7 = final_pow.
C10_Witness ==
    /\ kind = "RangeInclusive" /\ start = 0 /\ end = 100
    /\ nones(rets) = 1
    /\ it.final_pow = 7
    /\ Len(swept_offsets) > 9
    /\ run[6] = 13

\* ---------------------------------------------------------------- C11
\* C11: a range that holds no integer (start..end with end <= start,
\* start..=end with end < start) is rejected at construction: rlp_iter()
\* returns no iterator on which next() could be called.
C11_InvalidRejected ==
    n < 1 => ~built

tested_offsets == {o \in DOMAIN it.tested : it.tested[o]}
returned_offsets == {unwrap(rets[i]) - start : i \in {j \in DOMAIN rets : is_some(rets[j])}}

\* C13: in every state the offsets whose bit is set are the offsets
\* returned so far; a call that returns a value returns an offset whose bit
\* was clear and sets that bit only; a call that returns end-of-sequence
\* sets no bit.
C13_TestedIsReturned ==
    /\ [](tested_offsets = returned_offsets)
    /\ [][ rets' # rets =>
             LET out == rets'[Len(rets')]
             IN  IF is_some(out)
                 THEN /\ unwrap(out) - start \in DOMAIN it.tested
                      /\ ~it.tested[unwrap(out) - start]
                      /\ it'.tested = [it.tested EXCEPT ![unwrap(out) - start] = TRUE]
                 ELSE it'.tested = it.tested
        ]_vars

\* A shifted run, complete, with values from both loops.
C13_Witness ==
    /\ start > 0
    /\ nones(rets) = 1
    /\ work.sweep > 0
    /\ scan_emitted
    /\ Cardinality(tested_offsets) >= 10

\* ---------------------------------------------------------------- C14
\* The transitions of the phase a call may take.
PhaseSteps ==
    { << "Start", "End" >>, << "End", "Lattice" >>, << "End", "Finished" >>,
      << "Lattice", "Lattice" >>, << "Lattice", "Finished" >>,
      << "Finished", "Finished" >> }

\* C14: the phase only moves forward, along Start -> End, End -> Lattice
\* (range_size > 0), End -> Finished (range_size = 0), Lattice -> Lattice,
\* Lattice -> Finished, Finished -> Finished; Start is the phase of the
\* first call only and End of the second call only.
C14_PhaseForward ==
    /\ [](/\ it.state = "Start" <=> Len(rets) = 0
          /\ it.state = "End" <=> Len(rets) = 1)
    /\ [][ rets' # rets =>
             /\ << it.state, it'.state >> \in PhaseSteps
             /\ (it.state = "End" /\ it'.state = "Lattice") => it.range > 0
             /\ (it.state = "End" /\ it'.state = "Finished") => it.range = 0
        ]_vars

\* A run that has been in all four phases and was called again in Finished.
C14_Witness ==
    /\ it.state = "Finished"
    /\ nones(rets) = MaxNone
    /\ work.sweep > 0
    /\ n >= 5

\* ---------------------------------------------------------------- C15
\* The results that came out of the gap-filling scan, as offsets, in order.
scan_results == SelectSeq([i \in DOMAIN rets |-> << vias[i], rets[i] >>],
                          LAMBDA x : x[1] = "scan" /\ is_some(x[2]))
scanned_offsets == [i \in DOMAIN scan_results |-> unwrap(scan_results[i][2]) - start]

\* The offsets one more lattice level, final_pow + 1, would return after the
\* sweep: its fractions 1/2^pow .. (2^pow - 1)/2^pow in order, leaving out
\* the offsets returned before.
extra_level ==
    level_offsets(n - 1, it.final_pow + 1, {0, n - 1} \cup elems(swept_offsets))

\* C15: the linear scan is equivalent to one more lattice level: over a run
\* the offsets the scan returns are, in order, those the sweep would return
\* at level final_pow + 1, and after that level no offset is left untested.
C15_ScanIsNextLevel ==
    nones(rets) = 1 =>
        LET level == extra_level
        IN  /\ scanned_offsets = level
            /\ {0, n - 1} \cup elems(swept_offsets) \cup elems(level) = 0..(n - 1)

\* A complete run in which the scan returned ten offsets or more.
C15_Witness ==
    /\ nones(rets) = 1
    /\ Len(scanned_offsets) >= 10
    /\ Len(swept_offsets) >= 10

\* ---------------------------------------------------------------- C16
\* (p, a) comes before (q, b) in lexicographic order.
lex_less(p, a, q, b) == p < q \/ (p = q /\ a < b)

\* The fraction cursor is inside the sweep's bounds.
cursor_ok(self) ==
    /\ 1 <= self.pow /\ self.pow <= self.final_pow + 1
    /\ self.pow <= self.final_pow =>
           (1 <= self.numerator /\ self.numerator <= 2 ^ self.pow - 1)

\* C16: 1 <= pow <= final_pow + 1 in every state and pow never decreases;
\* while pow <= final_pow, 1 <= numerator <= 2^pow - 1; every iteration of
\* the sweep moves (pow, numerator) strictly up in lexicographic order, and
\* so does every call in which the sweep evaluated a candidate.
C16_CursorMonotone ==
    /\ [](cursor_ok(it))
    /\ [](Len(rets) = 0 =>
             \A p \in 1..it.final_pow : \A num \in 1..(2 ^ p - 1) :
                 LET a == advance([it EXCEPT !.pow = p, !.numerator = num], 2 ^ p)
                 IN  lex_less(p, num, a.pow, a.numerator) /\ cursor_ok(a))
    /\ [][ /\ it'.pow >= it.pow
           /\ work'.sweep > work.sweep =>
                  lex_less(it.pow, it.numerator, it'.pow, it'.numerator)
        ]_vars

\* A run whose sweep has reached its last level, after collisions.
C16_Witness ==
    /\ it.state = "Lattice"
    /\ it.pow = it.final_pow
    /\ it.pow >= 6
    /\ it.numerator > 1
    /\ work.sweep > Len(swept_offsets)

\* ---------------------------------------------------------------- C17
\* C17: no call changes shift, range_size, final_pow or the length of the
\* bitset; the bitset has range_size + 1 bits in every state.
C17_Frame ==
    /\ [](/\ DOMAIN it.tested = 0..it.range
          /\ Cardinality(DOMAIN it.tested) = n
          /\ it.shift = start
          /\ it.range = n - 1)
    /\ [][ /\ it'.shift = it.shift
           /\ it'.range = it.range
           /\ it'.final_pow = it.final_pow
           /\ DOMAIN it'.tested = DOMAIN it.tested
           /\ DOMAIN it' = DOMAIN it
        ]_vars

\* A shifted run after calls in every phase.
C17_Witness ==
    /\ start > 0
    /\ it.state = "Finished"
    /\ nones(rets) = MaxNone
    /\ work.sweep > 0
    /\ work.scan > 0
    /\ n >= 10

\* ---------------------------------------------------------------- C18
\* C18: over a run the lattice candidates evaluated plus the offsets
\* inspected by the scan number at most 4 * (range_size + 1).
C18_LinearWork ==
    work.sweep + work.scan <= 4 * (it.range + 1)

\* A complete run of a larger range, with the work of both loops counted.
C18_Witness ==
    /\ nones(rets) >= 1
    /\ n >= 90
    /\ work.sweep > n
    /\ work.scan = n - 1

\* ---------------------------------------------------------------- C19
\* C19: the scan uses numerator as its cursor and starts from 1: numerator
\* is 1 in every Lattice state with pow > final_pow in which the scan has
\* not run, the first scan is entered with cursor 1, later scans with larger
\* cursors, the offsets inspected so far are 1..numerator - 1, and at
\* Finished they are 1..range_size.
C19_ScanFromOne ==
    /\ (it.state = "Lattice" /\ it.pow > it.final_pow /\ scan_from = << >>) =>
           it.numerator = 1
    /\ scan_from # << >> =>
           /\ scan_from[1] = 1
           /\ \A i \in 2..Len(scan_from) : scan_from[i] > scan_from[i - 1]
           /\ scan_from[Len(scan_from)] <= it.numerator
           /\ work.scan = it.numerator - 1
    /\ (it.state = "Finished" /\ n >= 2) =>
           (it.numerator = it.range + 1 /\ work.scan = it.range)

\* The sweep is exhausted and the scan has not run yet, in a range with gaps.
C19_Witness ==
    /\ it.state = "Lattice"
    /\ it.pow > it.final_pow
    /\ scan_from = << >>
    /\ it.final_pow >= 3
    /\ Cardinality(tested_offsets) < n

\* ---------------------------------------------------------------- C20
\* C20: in phase Finished every offset 0..=range_size is tested, and the
\* phase becomes Finished only in a call that returns end-of-sequence.
C20_FinishedComplete ==
    /\ [](it.state = "Finished" => tested_offsets = 0..it.range)
    /\ [][ (it.state # "Finished" /\ it'.state = "Finished") =>
               rets' = Append(rets, None)
        ]_vars

\* A run the scan completed has just become Finished.
C20_Witness ==
    /\ it.state = "Finished"
    /\ nones(rets) = 1
    /\ scan_emitted
    /\ n >= 10

=============================================================================
